---- MODULE Spec2Model ----
(***************************************************************************)
(* Model of nettside/web_visualization.py: the date normaliser fix_dates,  *)
(* the loader get_data, the chart builders plot_reported_cases,            *)
(* plot_cumulative_cases and plot_both, and the route handle_date.         *)
(*                                                                         *)
(* A Python str is a sequence of one-character strings, so that lower(),   *)
(* split(), the f-string concatenations and the regular expression are     *)
(* computed, not assumed.  A pandas Timestamp is a tuple <<y, m, d>>.      *)
(***************************************************************************)
EXTENDS Integers, Sequences, FiniteSets, TLC

VARIABLES
    files,      \* the directory data_files_updated: path -> file content
    writes,     \* number of changes made to the directory by its maintainer
    entry,      \* the function the caller invoked ("idle" before any call)
    args,       \* its arguments: [county, start, end]
    fn,         \* the plot_* function now executing
    pc,         \* position inside it
    county,     \* local `county` of the executing plot_* function
    data,       \* local `data`
    start,      \* local `start`
    end,        \* local `end`
    charts,     \* charts returned so far by the plot_* calls of this invocation
    result,     \* what the invoked function handed to its caller
    reads,      \* read_csv calls made per plot_* function in this invocation
    loaded,     \* per plot_* function, what its get_data call returned
    dmy_date,   \* argument of a direct call of fix_dates
    fixed       \* results of fix_dates(dmy_date) and fix_dates(fix_dates(dmy_date))

vars == <<files, writes, entry, args, fn, pc, county, data, start, end,
          charts, result, reads, loaded, dmy_date, fixed>>

plotVars == <<files, writes, entry, args, fn, pc, county, data, start, end,
              charts, result, reads, loaded>>

-----------------------------------------------------------------------------
(* Python values *)

\* None, a str and a Timestamp, told apart by their type
NoneV == [t |-> "None", v |-> <<>>]
StrV(s) == [t |-> "str", v |-> s]
TimestampV(d) == [t |-> "Timestamp", v |-> d]

\* The outcome of a call: an exception raised, or a value returned.
Raise(e) == [exc |-> e, val |-> <<>>]
Return(v) == [exc |-> "None", val |-> v]

DigitChars == <<"0", "1", "2", "3", "4", "5", "6", "7", "8", "9">>

IsDigit(c) == \E i \in 1..Len(DigitChars) : DigitChars[i] = c

DigitVal(c) == (CHOOSE i \in 1..Len(DigitChars) : DigitChars[i] = c) - 1

AllDigits(s) == \A i \in 1..Len(s) : IsDigit(s[i])

\* int(s) for a string of digits
RECURSIVE IntOf(_)
IntOf(s) ==
    IF Len(s) = 0 THEN 0
    ELSE 10 * IntOf(SubSeq(s, 1, Len(s) - 1)) + DigitVal(s[Len(s)])

\* n as a zero-padded decimal of w digits, the way str(Timestamp) prints a field
RECURSIVE Pad(_, _)
Pad(n, w) ==
    IF w = 0 THEN <<>>
    ELSE Pad(n \div 10, w - 1) \o <<DigitChars[(n % 10) + 1]>>

\* c in s
Contains(s, c) == \E i \in 1..Len(s) : s[i] = c

\* s.split(sep) for a one-character separator
RECURSIVE split(_, _)
split(s, sep) ==
    IF ~Contains(s, sep) THEN <<s>>
    ELSE LET i == CHOOSE k \in 1..Len(s) :
                     s[k] = sep /\ \A j \in 1..(k - 1) : s[j] # sep
         IN  <<SubSeq(s, 1, i - 1)>> \o split(SubSeq(s, i + 1, Len(s)), sep)

-----------------------------------------------------------------------------
(* fix_dates *)

\* the f-string with the fields in the wrong order: month and day swapped
fix_dates_swapped(s) ==
    IF Contains(s, "-") THEN Return(s)
    ELSE LET date_array == split(s, "/")
         IN  IF Len(date_array) < 3 THEN Raise("IndexError")
             ELSE Return(date_array[3] \o <<"-">> \o date_array[1]
                            \o <<"-">> \o date_array[2])

fix_dates(s) ==
    IF Contains(s, "-") THEN Return(s)
    ELSE LET date_array == split(s, "/")
         IN  IF Len(date_array) < 3 THEN Raise("IndexError")
             ELSE Return(date_array[3] \o <<"-">> \o date_array[2]
                            \o <<"-">> \o date_array[1])

-----------------------------------------------------------------------------
(* Timestamps *)

IsLeap(y) == (y % 4 = 0 /\ y % 100 # 0) \/ y % 400 = 0

DaysInMonth(y, m) ==
    IF m = 2 THEN (IF IsLeap(y) THEN 29 ELSE 28)
    ELSE IF m \in {4, 6, 9, 11} THEN 30 ELSE 31

IsCalendarDate(y, m, d) ==
    /\ y >= 1 /\ m \in 1..12
    /\ d >= 1 /\ d <= DaysInMonth(y, m)

\* Timestamp order
DateLe(a, b) ==
    \/ a[1] < b[1]
    \/ a[1] = b[1] /\ a[2] < b[2]
    \/ a[1] = b[1] /\ a[2] = b[2] /\ a[3] <= b[3]

DateLt(a, b) == DateLe(a, b) /\ a # b

\* pandas turning the str operand of a comparison with the datetime column
\* into a Timestamp: a YYYY-MM-DD string naming a calendar date parses, and
\* a string that does not parse makes the comparison raise TypeError.
Timestamp(s) ==
    LET f == split(s, "-")
    IN  IF /\ Len(f) = 3
           /\ Len(f[1]) = 4 /\ Len(f[2]) = 2 /\ Len(f[3]) = 2
           /\ AllDigits(f[1]) /\ AllDigits(f[2]) /\ AllDigits(f[3])
           /\ IsCalendarDate(IntOf(f[1]), IntOf(f[2]), IntOf(f[3]))
        THEN Return(<<IntOf(f[1]), IntOf(f[2]), IntOf(f[3])>>)
        ELSE Raise("TypeError")

\* str(x) of a str or of a Timestamp ("2020-03-12 00:00:00")
str(x) ==
    IF x.t = "str" THEN x.v
    ELSE Pad(x.v[1], 4) \o <<"-">> \o Pad(x.v[2], 2) \o <<"-">> \o Pad(x.v[3], 2)
         \o <<" ", "0", "0", ":", "0", "0", ":", "0", "0">>

\* whether s[i..i+9] matches \d{4}-\d{2}-\d{2}
MatchesAt(s, i) ==
    /\ i + 9 <= Len(s)
    /\ \A k \in {0, 1, 2, 3, 5, 6, 8, 9} : IsDigit(s[i + k])
    /\ s[i + 4] = "-" /\ s[i + 7] = "-"

\* re.findall(regs, s)[0]
findall_first(s) ==
    IF \E i \in 1..Len(s) : MatchesAt(s, i)
    THEN LET i == CHOOSE k \in 1..Len(s) :
                      MatchesAt(s, k) /\ \A j \in 1..(k - 1) : ~MatchesAt(s, j)
         IN  Return(SubSeq(s, i, i + 9))
    ELSE Raise("IndexError")

-----------------------------------------------------------------------------
(* get_data *)

UpperCase == <<"A", "B", "C", "D", "E", "F", "G", "H", "I", "J", "K", "L", "M",
               "N", "O", "P", "Q", "R", "S", "T", "U", "V", "W", "X", "Y", "Z">>

LowerCase == <<"a", "b", "c", "d", "e", "f", "g", "h", "i", "j", "k", "l", "m",
               "n", "o", "p", "q", "r", "s", "t", "u", "v", "w", "x", "y", "z">>

\* str.lower()
lower(s) ==
    [i \in 1..Len(s) |->
        IF \E k \in 1..Len(UpperCase) : UpperCase[k] = s[i]
        THEN LowerCase[CHOOSE k \in 1..Len(UpperCase) : UpperCase[k] = s[i]]
        ELSE s[i]]

\* the path built without lower()
FilePathAsGiven(c) ==
    [dir |-> "data_files_updated", prefix |-> "antall-meldte-covid-19-",
     token |-> c, ext |-> ".csv"]

\* os.path.join("data_files_updated", f"antall-meldte-covid-19-{county.lower()}.csv")
FilePath(c) ==
    [dir |-> "data_files_updated", prefix |-> "antall-meldte-covid-19-",
     token |-> lower(c), ext |-> ".csv"]

\* a loader that keeps the DataFrame of its last successful read
get_data_cached(c) ==
    IF \E f \in DOMAIN loaded : loaded[f].exc = "None"
    THEN loaded[CHOOSE f \in DOMAIN loaded : loaded[f].exc = "None"]
    ELSE LET file == FilePath(c)
         IN  IF file \notin DOMAIN files THEN Raise("FileNotFoundError")
             ELSE IF "Dato" \notin files[file].columns THEN Raise("ValueError")
             ELSE Return(files[file].rows)

\* pd.read_csv(file, sep=';', parse_dates=["Dato"], dayfirst=True): the rows
\* of the file with the column Dato as Timestamps; FileNotFoundError when
\* there is no such file, ValueError when the file has no column Dato.
get_data(c) ==
    LET file == FilePath(c)
    IN  IF file \notin DOMAIN files THEN Raise("FileNotFoundError")
        ELSE IF "Dato" \notin files[file].columns THEN Raise("ValueError")
        ELSE Return(files[file].rows)

allcounties == <<"a", "l", "l", "c", "o", "u", "n", "t", "i", "e", "s">>

Norge == <<"N", "o", "r", "g", "e">>

\* lines 58-62 and 145-146: the county as the titles show it
DisplayName(c) == IF c # allcounties THEN c ELSE Norge

-----------------------------------------------------------------------------
(* the filter of plot_reported_cases and plot_cumulative_cases *)

\* data[data["Dato"] > ts]
GeMaskStrict(rows, ts) == SelectSeq(rows, LAMBDA r : DateLt(ts, r.Dato))

\* data[data["Dato"] >= ts]
GeMask(rows, ts) == SelectSeq(rows, LAMBDA r : DateLe(ts, r.Dato))

\* data[data["Dato"] <= ts]
LeMask(rows, ts) == SelectSeq(rows, LAMBDA r : DateLe(r.Dato, ts))

\* data["Dato"].iloc[0]
iloc_first(rows) ==
    IF Len(rows) = 0 THEN Raise("IndexError") ELSE Return(rows[1].Dato)

\* data["Dato"].iloc[-1]
iloc_last(rows) ==
    IF Len(rows) = 0 THEN Raise("IndexError") ELSE Return(rows[Len(rows)].Dato)

\* lines 64-68: the new values of `data` and `start`, or the exception
FilterStart(rows, s) ==
    IF s.t # "None"
    THEN LET f == fix_dates(s.v)
         IN  IF f.exc # "None" THEN [exc |-> f.exc, data |-> rows, bound |-> s]
             ELSE LET ts == Timestamp(f.val)
                  IN  IF ts.exc # "None"
                      THEN [exc |-> ts.exc, data |-> rows, bound |-> StrV(f.val)]
                      ELSE [exc |-> "None", data |-> GeMask(rows, ts.val),
                            bound |-> StrV(f.val)]
    ELSE LET first == iloc_first(rows)
         IN  IF first.exc # "None" THEN [exc |-> first.exc, data |-> rows, bound |-> s]
             ELSE [exc |-> "None", data |-> rows, bound |-> TimestampV(first.val)]

\* lines 70-74: the new values of `data` and `end`, or the exception
FilterEnd(rows, e) ==
    IF e.t # "None"
    THEN LET f == fix_dates(e.v)
         IN  IF f.exc # "None" THEN [exc |-> f.exc, data |-> rows, bound |-> e]
             ELSE LET ts == Timestamp(f.val)
                  IN  IF ts.exc # "None"
                      THEN [exc |-> ts.exc, data |-> rows, bound |-> StrV(f.val)]
                      ELSE [exc |-> "None", data |-> LeMask(rows, ts.val),
                            bound |-> StrV(f.val)]
    ELSE LET last == iloc_last(rows)
         IN  IF last.exc # "None" THEN [exc |-> last.exc, data |-> rows, bound |-> e]
             ELSE [exc |-> "None", data |-> rows, bound |-> TimestampV(last.val)]

-----------------------------------------------------------------------------
(* charts *)

\* a title is the concatenation of literals and of the values of variables
Lit(text) == [lit |-> text, chars |-> <<>>]
Val(s) == [lit |-> "", chars |-> s]

NoChart == [mark |-> "none", title |-> <<>>, data |-> <<>>, y |-> "",
            layers |-> <<>>, resolve_scale |-> ""]

\* line 80 and line 122
Title(f, c, s, e) ==
    IF f = "plot_reported_cases"
    THEN <<Lit("Oversikt over antall rapporterte smitttede i "), Val(c),
           Lit(" fra "), Val(s), Lit(" til "), Val(e)>>
    ELSE <<Lit("Oversikt over komulativt antall smitttede i "), Val(c),
           Lit(", fra "), Val(s), Lit(" til "), Val(e)>>

\* lines 81-87 and lines 124-130
Chart(f, title, rows) ==
    [mark |-> IF f = "plot_reported_cases" THEN "bar" ELSE "line",
     title |-> title, data |-> rows,
     y |-> IF f = "plot_reported_cases" THEN "Nye tilfeller" ELSE "Kumulativt antall",
     layers |-> <<>>, resolve_scale |-> ""]

\* plot_both without lines 145-146: the title shows the argument as given
LayerGivenCounty(c, reported_bar, cumulative_line) ==
    [mark |-> "layer",
     title |-> <<Lit("Oversikt over komulativt antall smitttede og antall rapporterte smitttede i "),
                 Val(c)>>,
     data |-> <<>>, y |-> "",
     layers |-> <<reported_bar, cumulative_line>>, resolve_scale |-> "independent"]

\* lines 145-150
Layer(c, reported_bar, cumulative_line) ==
    [mark |-> "layer",
     title |-> <<Lit("Oversikt over komulativt antall smitttede og antall rapporterte smitttede i "),
                 Val(DisplayName(c))>>,
     data |-> <<>>, y |-> "",
     layers |-> <<reported_bar, cumulative_line>>, resolve_scale |-> "independent"]

-----------------------------------------------------------------------------
(* bounds and inputs *)

\* rows of a data file
MaxRows == 2

\* changes the maintainer of data_files_updated makes to a file
MaxWrites == 1

\* the dates of the calls quoted at lines 160-162
SampleDates == {<<2020, 3, 12>>, <<2020, 3, 29>>, <<2020, 8, 4>>}

Rows == {[Dato |-> d] : d \in SampleDates}

Datasets == UNION {[1..n -> Rows] : n \in 0..MaxRows}

AllColumns == {"Dato", "Nye tilfeller", "Kumulativt antall"}

\* a data file, or a file that lacks the column Dato
FileContents ==
    {[columns |-> AllColumns, rows |-> rows] : rows \in Datasets}
        \cup {[columns |-> AllColumns \ {"Dato"}, rows |-> <<>>]}

Oslo == <<"O", "s", "l", "o">>

\* the regions a file of the directory may be named after
DiskRegions == {lower(Oslo), allcounties}

\* the county arguments of the calls
Counties == {Oslo, <<"O", "S", "L", "O">>, allcounties,
             <<"A", "l", "l", "C", "o", "u", "n", "t", "i", "e", "s">>}

DmyOf(d) == Pad(d[3], 2) \o <<"/">> \o Pad(d[2], 2) \o <<"/">> \o Pad(d[1], 4)

IsoOf(d) == Pad(d[1], 4) \o <<"-">> \o Pad(d[2], 2) \o <<"-">> \o Pad(d[3], 2)

\* date strings a caller passes: day-first, ISO, and "2020-13-40"
DateStrings ==
    {DmyOf(<<2020, 3, 12>>), IsoOf(<<2020, 3, 29>>), DmyOf(<<2020, 8, 4>>),
     IsoOf(<<2020, 13, 40>>)}

DateArgs == {NoneV} \cup {StrV(s) : s \in DateStrings}

\* request.form[...] is always a str, empty when the field was left empty
FormArgs == {StrV(s) : s \in DateStrings \cup {<<>>}}

PlotFunctions == {"plot_reported_cases", "plot_cumulative_cases"}

Entries == PlotFunctions \cup {"plot_both", "handle_date"}

Pending == [status |-> "pending", exc |-> "None", chart |-> NoChart, body |-> ""]

-----------------------------------------------------------------------------
(* the state machine *)

Init ==
    /\ \E r \in DiskRegions, content \in FileContents :
           files = (FilePath(r) :> content)
    /\ writes = 0
    /\ entry = "idle"
    /\ args = [county |-> <<>>, start |-> NoneV, end |-> NoneV]
    /\ fn = "none"
    /\ pc = "idle"
    /\ county = <<>>
    /\ data = <<>>
    /\ start = NoneV
    /\ end = NoneV
    /\ charts = [f \in PlotFunctions |-> NoChart]
    /\ result = Pending
    /\ reads = [f \in PlotFunctions |-> 0]
    /\ loaded = [f \in PlotFunctions |-> Raise("unset")]
    /\ dmy_date = <<>>
    /\ fixed = <<>>

\* plot_both is between its two plot_* calls: line 143 is done, line 144 not begun
BetweenReads ==
    /\ pc = "get_data"
    /\ fn = "plot_cumulative_cases"
    /\ entry \in {"plot_both", "handle_date"}

\* The maintainer of the directory adds a day's row to a data file.  No file
\* is read between a get_data and the next one, so a change made at any other
\* moment is the same as one made right before the next read, and a change
\* before the first read of an invocation is the same as starting from the
\* changed directory, which Init and Finish cover.
WriteFile ==
    /\ writes < MaxWrites
    /\ BetweenReads
    /\ \E file \in DOMAIN files, row \in Rows :
           /\ "Dato" \in files[file].columns
           /\ Len(files[file].rows) < MaxRows
           /\ files' = [files EXCEPT ![file].rows = Append(@, row)]
    /\ writes' = writes + 1
    /\ UNCHANGED <<entry, args, fn, pc, county, data, start, end, charts, result,
                   reads, loaded, dmy_date, fixed>>

\* a caller invokes e(c, s, en); plot_both and handle_date begin with line 143
Call(e, c, s, en) ==
    /\ pc = "idle"
    /\ entry' = e
    /\ args' = [county |-> c, start |-> s, end |-> en]
    /\ fn' = IF e = "plot_cumulative_cases" THEN e ELSE "plot_reported_cases"
    /\ pc' = "get_data"
    /\ county' = c
    /\ start' = s
    /\ end' = en
    /\ data' = <<>>
    /\ charts' = [f \in PlotFunctions |-> NoChart]
    /\ result' = Pending
    /\ reads' = [f \in PlotFunctions |-> 0]
    /\ UNCHANGED <<files, writes, loaded, dmy_date, fixed>>

CallPlot ==
    \E e \in PlotFunctions \cup {"plot_both"}, c \in Counties,
       s \in DateArgs, en \in DateArgs : Call(e, c, s, en)

\* lines 219-223
CallHandleDate ==
    \E c \in Counties, s \in FormArgs, en \in FormArgs :
        Call("handle_date", c, s, en)

\* lines 143-144: plot_both and the plot_* functions catch nothing, so the
\* caller gets the exception as it was raised
NoExcept(e) == [status |-> "raised", exc |-> e, chart |-> NoChart, body |-> ""]

\* lines 226-227: what handle_date makes of an exception of plot_both
Except(e) ==
    [status |-> "response", exc |-> "None", chart |-> NoChart,
     body |-> "Feil input, prøv igjen"]

\* an exception leaves the plot_* function and plot_both, which catch nothing
Propagate(e) ==
    /\ result' = IF entry = "handle_date" THEN Except(e) ELSE NoExcept(e)
    /\ pc' = "returned"
    /\ fn' = "none"

\* lines 58-62 (lines 100-104)
GetData ==
    /\ pc = "get_data"
    /\ LET got == IF county # allcounties THEN get_data(county)
                  ELSE get_data(allcounties)
       IN  /\ loaded' = [loaded EXCEPT ![fn] = got]
           /\ reads' = [reads EXCEPT ![fn] = @ + 1]
           /\ IF got.exc # "None"
              THEN /\ Propagate(got.exc)
                   /\ UNCHANGED <<county, data>>
              ELSE /\ data' = got.val
                   /\ county' = DisplayName(county)
                   /\ pc' = "filter"
                   /\ UNCHANGED <<fn, result>>
    /\ UNCHANGED <<files, writes, entry, args, start, end, charts, dmy_date, fixed>>

\* lines 64-74 (lines 106-115)
Filter ==
    /\ pc = "filter"
    /\ LET s == FilterStart(data, start)
           e == FilterEnd(s.data, end)
       IN  IF s.exc # "None"
           THEN /\ Propagate(s.exc)
                /\ UNCHANGED <<data, start, end>>
           ELSE IF e.exc # "None"
           THEN /\ Propagate(e.exc)
                /\ data' = s.data
                /\ start' = s.bound
                /\ UNCHANGED end
           ELSE /\ data' = e.data
                /\ start' = s.bound
                /\ end' = e.bound
                /\ pc' = "construct"
                /\ UNCHANGED <<fn, result>>
    /\ UNCHANGED <<files, writes, entry, args, county, charts, reads, loaded,
                   dmy_date, fixed>>

\* lines 76-89 (lines 117-131), and the return to the caller: lines 143-144
Construct ==
    /\ pc = "construct"
    /\ LET e == findall_first(str(end))
           s == findall_first(str(start))
       IN  IF e.exc # "None"
           THEN /\ Propagate(e.exc)
                /\ UNCHANGED <<county, data, start, end, charts>>
           ELSE IF s.exc # "None"
           THEN /\ Propagate(s.exc)
                /\ end' = StrV(e.val)
                /\ UNCHANGED <<county, data, start, charts>>
           ELSE LET plot == Chart(fn, Title(fn, county, s.val, e.val), data)
                IN  /\ charts' = [charts EXCEPT ![fn] = plot]
                    /\ IF entry \in PlotFunctions
                       THEN /\ result' = [status |-> "returned", exc |-> "None",
                                          chart |-> plot, body |-> ""]
                            /\ pc' = "returned"
                            /\ fn' = "none"
                            /\ start' = StrV(s.val)
                            /\ end' = StrV(e.val)
                            /\ UNCHANGED <<county, data>>
                       ELSE IF fn = "plot_reported_cases"
                       THEN /\ fn' = "plot_cumulative_cases"
                            /\ pc' = "get_data"
                            /\ county' = args.county
                            /\ start' = args.start
                            /\ end' = args.end
                            /\ data' = <<>>
                            /\ UNCHANGED result
                       ELSE /\ fn' = "none"
                            /\ pc' = "layer"
                            /\ county' = args.county
                            /\ start' = args.start
                            /\ end' = args.end
                            /\ data' = <<>>
                            /\ UNCHANGED result
    /\ UNCHANGED <<files, writes, entry, args, reads, loaded, dmy_date, fixed>>

\* lines 145-150
LayerCharts ==
    /\ pc = "layer"
    /\ LET plot == Layer(county, charts["plot_reported_cases"],
                         charts["plot_cumulative_cases"])
       IN  IF entry = "plot_both"
           THEN /\ result' = [status |-> "returned", exc |-> "None",
                              chart |-> plot, body |-> ""]
                /\ pc' = "returned"
           ELSE /\ result' = [status |-> "pending", exc |-> "None",
                              chart |-> plot, body |-> ""]
                /\ pc' = "save"
    /\ UNCHANGED <<files, writes, entry, args, fn, county, data, start, end,
                   charts, reads, loaded, dmy_date, fixed>>

\* lines 224-225
Respond ==
    /\ pc = "save"
    /\ result' = [result EXCEPT !.status = "response", !.body = "webPlots2.html"]
    /\ pc' = "returned"
    /\ UNCHANGED <<files, writes, entry, args, fn, county, data, start, end,
                   charts, reads, loaded, dmy_date, fixed>>

\* the caller has taken the result; the locals of the invocation are gone
Finish ==
    /\ pc = "returned"
    /\ entry' = "idle"
    /\ args' = [county |-> <<>>, start |-> NoneV, end |-> NoneV]
    /\ fn' = "none"
    /\ pc' = "idle"
    /\ county' = <<>>
    /\ data' = <<>>
    /\ start' = NoneV
    /\ end' = NoneV
    /\ charts' = [f \in PlotFunctions |-> NoChart]
    /\ result' = Pending
    /\ reads' = [f \in PlotFunctions |-> 0]
    /\ loaded' = [f \in PlotFunctions |-> Raise("unset")]
    /\ UNCHANGED <<files, writes, dmy_date, fixed>>

Next ==
    \/ WriteFile
    \/ CallPlot
    \/ CallHandleDate
    \/ GetData
    \/ Filter
    \/ Construct
    \/ LayerCharts
    \/ Respond
    \/ Finish

Spec == Init /\ [][Next]_vars

-----------------------------------------------------------------------------
(* fix_dates called on its own *)

DayFields == {<<"0", "1">>, <<"1", "2">>, <<"2", "9">>, <<"3", "1">>,
              <<"4", "0">>, <<"4">>}

MonthFields == {<<"0", "2">>, <<"0", "3">>, <<"0", "8">>, <<"1", "3">>, <<"8">>}

YearFields == {<<"2", "0", "2", "0">>, <<"2", "0", "2", "1">>, <<"2", "0">>}

\* day/month/year, year-month-day, day-month-year, two fields, four fields,
\* and the empty string
RawDates ==
    {d \o <<"/">> \o m \o <<"/">> \o y :
        d \in DayFields, m \in MonthFields, y \in YearFields}
    \cup {y \o <<"-">> \o m \o <<"-">> \o d :
        d \in DayFields, m \in MonthFields, y \in YearFields}
    \cup {d \o <<"-">> \o m \o <<"-">> \o y :
        d \in DayFields, m \in MonthFields, y \in YearFields}
    \cup {m \o <<"/">> \o y : m \in MonthFields, y \in YearFields}
    \cup {d \o <<"/">> \o m \o <<"/">> \o y \o <<"/">> \o d :
        d \in DayFields, m \in MonthFields, y \in YearFields}
    \cup {<<>>}

InitFix ==
    /\ files = (FilePath(allcounties) :> [columns |-> AllColumns, rows |-> <<>>])
    /\ writes = 0
    /\ entry = "idle"
    /\ args = [county |-> <<>>, start |-> NoneV, end |-> NoneV]
    /\ fn = "none"
    /\ pc = "idle"
    /\ county = <<>>
    /\ data = <<>>
    /\ start = NoneV
    /\ end = NoneV
    /\ charts = [f \in PlotFunctions |-> NoChart]
    /\ result = Pending
    /\ reads = [f \in PlotFunctions |-> 0]
    /\ loaded = [f \in PlotFunctions |-> Raise("unset")]
    /\ dmy_date \in RawDates
    /\ fixed = <<>>

\* fix_dates(dmy_date)
FixDate ==
    /\ fixed = <<>>
    /\ fixed' = <<fix_dates(dmy_date)>>
    /\ UNCHANGED <<plotVars, dmy_date>>

\* fix_dates(fix_dates(dmy_date)), when the first call returned
FixDateAgain ==
    /\ Len(fixed) = 1
    /\ fixed[1].exc = "None"
    /\ fixed' = Append(fixed, fix_dates(fixed[1].val))
    /\ UNCHANGED <<plotVars, dmy_date>>

NextFix ==
    \/ FixDate
    \/ FixDateAgain

SpecFix == InitFix /\ [][NextFix]_vars

-----------------------------------------------------------------------------
(* vocabulary of the properties *)

\* a date argument that names one of the sample dates, in either form
ValidArg(a) ==
    a.t = "str" /\ \E d \in SampleDates : a.v \in {DmyOf(d), IsoOf(d)}

DateOfArg(a) == CHOOSE d \in SampleDates : a.v \in {DmyOf(d), IsoOf(d)}

IsSorted(rows) ==
    \A i, j \in 1..Len(rows) : i < j => DateLe(rows[i].Dato, rows[j].Dato)

\* the parts of a title of plot_reported_cases or plot_cumulative_cases
TitleCounty(chart) == chart.title[2].chars
TitleStart(chart) == chart.title[4].chars
TitleEnd(chart) == chart.title[6].chars

\* a plot_* function called directly has returned or raised
PlotDone == pc = "returned" /\ entry \in PlotFunctions

\* the calendar dates the fields of RawDates can spell
CalendarDates ==
    {d \in {2020, 2021} \X (1..12) \X (1..31) : IsCalendarDate(d[1], d[2], d[3])}

\* two identifiers that differ at most in the case of their letters
SameButCase(a, b) ==
    /\ Len(a) = Len(b)
    /\ \A i \in 1..Len(a) :
           \/ a[i] = b[i]
           \/ \E k \in 1..Len(UpperCase) :
                  {a[i], b[i]} = {UpperCase[k], LowerCase[k]}

-----------------------------------------------------------------------------
(* C1 *)

\* the rows of the dataset as loaded whose date lies in [lo, hi]
RowsWithin(rows, lo, hi) ==
    SelectSeq(rows, LAMBDA r : DateLe(lo, r.Dato) /\ DateLe(r.Dato, hi))

\* C1: for a dataset sorted by date and explicit bounds start <= end, the
\* chart of plot_reported_cases / plot_cumulative_cases holds exactly the rows
\* with start <= Dato <= end, in their order and as one contiguous run of the
\* dataset as loaded.
C1_SliceIsInclusiveRange ==
    ( /\ PlotDone
      /\ loaded[entry].exc = "None"
      /\ IsSorted(loaded[entry].val)
      /\ ValidArg(args.start) /\ ValidArg(args.end)
      /\ DateLe(DateOfArg(args.start), DateOfArg(args.end)) )
    => /\ result.status = "returned"
       /\ result.chart.data =
              RowsWithin(loaded[entry].val, DateOfArg(args.start), DateOfArg(args.end))
       /\ \E i \in 1..(Len(loaded[entry].val) + 1), j \in 0..Len(loaded[entry].val) :
              result.chart.data = SubSeq(loaded[entry].val, i, j)

\* C1 witness: a sorted dataset with a row on the start bound that is kept
\* and a row outside the range that is dropped.
C1_Witness ==
    /\ PlotDone
    /\ result.status = "returned"
    /\ IsSorted(loaded[entry].val)
    /\ ValidArg(args.start) /\ ValidArg(args.end)
    /\ DateLe(DateOfArg(args.start), DateOfArg(args.end))
    /\ Len(result.chart.data) = 1
    /\ Len(loaded[entry].val) = 2
    /\ result.chart.data[1].Dato = DateOfArg(args.start)

-----------------------------------------------------------------------------
(* C2 *)

\* an argument that is absent or names a date
AbsentOrValid(a) == a.t = "None" \/ ValidArg(a)

\* C2: with start absent the resolved start is the date of the first row of
\* the dataset as loaded, and with end absent the resolved end is the date of
\* its last row, whatever the other bound is.
C2_OpenBoundsAreDatasetExtremes ==
    ( /\ PlotDone
      /\ loaded[entry].exc = "None"
      /\ Len(loaded[entry].val) > 0
      /\ AbsentOrValid(args.start) /\ AbsentOrValid(args.end) )
    => /\ args.start.t = "None" =>
              /\ result.status = "returned"
              /\ TitleStart(result.chart) = IsoOf(loaded[entry].val[1].Dato)
       /\ args.end.t = "None" =>
              /\ result.status = "returned"
              /\ TitleEnd(result.chart) =
                     IsoOf(loaded[entry].val[Len(loaded[entry].val)].Dato)

-----------------------------------------------------------------------------
(* C3 *)

\* the bounds the arguments and the dataset as loaded resolve to
ResolvedLo(rows, a) == IF a.t = "None" THEN rows[1].Dato ELSE DateOfArg(a)
ResolvedHi(rows, a) == IF a.t = "None" THEN rows[Len(rows)].Dato ELSE DateOfArg(a)

NoRowInRange(rows, s, e) ==
    \/ Len(rows) = 0
    \/ RowsWithin(rows, ResolvedLo(rows, s), ResolvedHi(rows, e)) = <<>>

\* C3: when the dataset has no rows, or no row lies in the resolved range
\* (also because the resolved start is after the resolved end), the plot_*
\* function raises nothing and returns a chart over the empty slice.
C3_EmptySliceIsNoError ==
    ( /\ PlotDone
      /\ loaded[entry].exc = "None"
      /\ AbsentOrValid(args.start) /\ AbsentOrValid(args.end)
      /\ NoRowInRange(loaded[entry].val, args.start, args.end) )
    => /\ result.status = "returned"
       /\ result.chart.data = <<>>

-----------------------------------------------------------------------------
(* C4 and C5, under SpecFix *)

SlashCount(s) == Cardinality({i \in 1..Len(s) : s[i] = "/"})

\* a string of three fields separated by "/"
ThreeFieldSlash(s) == SlashCount(s) = 2 /\ ~Contains(s, "-")

ValidIso(s) == \E d \in CalendarDates : s = IsoOf(d)

ValidDmy(s) == \E d \in CalendarDates : s = DmyOf(d)

\* C4: fix_dates raises for every input that is neither a three-field
\* "/"-separated date nor a valid ISO date.
C4_MalformedIsRejected ==
    ( /\ Len(fixed) >= 1
      /\ ~ThreeFieldSlash(dmy_date)
      /\ ~ValidIso(dmy_date) )
    => fixed[1].exc # "None"

\* C5: fix_dates returns a valid ISO string unchanged, returns yyyy-mm-dd for
\* a valid dd/mm/yyyy with the same day, month and year, and applied to its
\* own result returns that result.
C5_FixDatesCanonical ==
    /\ Len(fixed) >= 1 =>
           \A d \in CalendarDates :
               /\ dmy_date = IsoOf(d) => fixed[1] = Return(dmy_date)
               /\ dmy_date = DmyOf(d) => fixed[1] = Return(IsoOf(d))
    /\ (Len(fixed) = 2 /\ (ValidIso(dmy_date) \/ ValidDmy(dmy_date))) =>
           fixed[2] = fixed[1]

\* C5 witness: fix_dates applied twice to the day-first 29/02/2020.
C5_Witness ==
    /\ dmy_date = DmyOf(<<2020, 2, 29>>)
    /\ Len(fixed) = 2
    /\ fixed[2] = Return(IsoOf(<<2020, 2, 29>>))

-----------------------------------------------------------------------------
(* C6 *)

\* C6: for every identifier that resolves to the aggregate file, the titles
\* of plot_reported_cases, plot_cumulative_cases and plot_both show "Norge".
C6_AggregateTitleIsNorge ==
    ( /\ pc = "returned"
      /\ entry \in PlotFunctions \cup {"plot_both"}
      /\ result.status = "returned"
      /\ FilePath(args.county) = FilePath(allcounties) )
    => TitleCounty(result.chart) = Norge

-----------------------------------------------------------------------------
(* C7 *)

\* C7: an identifier that differs from the one get_data was called with only
\* in letter case resolves to the same path, and get_data returns for it the
\* dataset it returned.
C7_LookupIgnoresCase ==
    pc = "filter" =>
        \A c \in Counties :
            SameButCase(c, args.county) =>
                /\ FilePath(c) = FilePath(args.county)
                /\ FilePath(c).token = lower(args.county)
                /\ get_data(c) = loaded[fn]

\* C7 witness: get_data("OSLO") returned the rows of the file of oslo.
C7_Witness ==
    /\ pc = "filter"
    /\ args.county = <<"O", "S", "L", "O">>
    /\ Len(loaded[fn].val) > 0
    /\ loaded[fn].val = files[FilePath(lower(Oslo))].rows

-----------------------------------------------------------------------------
(* C8 *)

ReportedBar == charts["plot_reported_cases"]
CumulativeLine == charts["plot_cumulative_cases"]

\* plot_both has returned its layered chart
BothReturned ==
    pc = "returned" /\ entry = "plot_both" /\ result.status = "returned"

\* a title shows the string s as one of its parts
Shows(title, s) == \E i \in 1..Len(title) : title[i].chars = s

-----------------------------------------------------------------------------
(* C9 *)

\* C9: an error is never swallowed into a fallback value: the caller,
\* handle_date included, gets a response only together with a chart, and an
\* error of the load reaches it as the exception that was raised.
C9_ErrorsReachTheCaller ==
    pc = "returned" =>
        /\ result.status = "response" => result.chart.mark = "layer"
        /\ \A f \in PlotFunctions :
               loaded[f].exc \in {"FileNotFoundError", "ValueError"} =>
                   /\ result.status = "raised"
                   /\ result.exc = loaded[f].exc

-----------------------------------------------------------------------------
(* C10 *)

OtherPlot(f) ==
    IF f = "plot_reported_cases" THEN "plot_cumulative_cases"
    ELSE "plot_reported_cases"

\* C10 as stated: a plot_* call reads the file exactly once and a plot_both
\* call exactly twice.
C10_ReadsOncePerBuildTwicePerBoth ==
    pc = "returned" =>
        /\ entry \in PlotFunctions =>
               reads[entry] = 1 /\ reads[OtherPlot(entry)] = 0
        /\ entry = "plot_both" =>
               reads["plot_reported_cases"] + reads["plot_cumulative_cases"] = 2

\* C10 amended: a plot_* call loads, then filters, then constructs; the load
\* is one read, and what it returns is the content the file has at that
\* moment; a plot_both call that returns has read twice, once per build, and
\* one that raises has read once when its first build raised and twice when
\* its first build returned a chart.
C10_LoadFilterConstruct ==
    [][ /\ pc' = "filter" =>
               /\ pc = "get_data"
               /\ reads' = [reads EXCEPT ![fn] = @ + 1]
               /\ loaded'[fn] = Return(files[FilePath(args.county)].rows)
               /\ data' = files[FilePath(args.county)].rows
        /\ pc' = "construct" => pc = "filter" /\ reads' = reads
        /\ (pc' = "returned" /\ entry \in PlotFunctions) =>
               reads'[entry] = 1 /\ reads'[OtherPlot(entry)] = 0
        /\ (pc' = "returned" /\ entry = "plot_both") =>
               /\ reads'["plot_reported_cases"] = 1
               /\ reads'["plot_cumulative_cases"] =
                      IF charts'["plot_reported_cases"].mark = "none" THEN 0 ELSE 1
               /\ result'.status = "returned" =>
                      charts'["plot_cumulative_cases"].mark = "line"
      ]_vars

\* C10 witness: plot_both returned after the file gained a row between its
\* two reads, and the second build loaded the file with that row.
C10_Witness ==
    /\ BothReturned
    /\ writes = 1
    /\ Len(loaded["plot_cumulative_cases"].val) =
           Len(loaded["plot_reported_cases"].val) + 1
    /\ loaded["plot_cumulative_cases"].val = files[FilePath(args.county)].rows

====
